---------------------------- MODULE Spec2Model ----------------------------
(***************************************************************************)
(* A model of the file_ref crate: the path value FileRef (file_ref.rs) and *)
(* the directory scanner FileScanner (file_scanner.rs).                    *)
(*                                                                         *)
(* A string is a sequence of one-character strings, so that the crate's    *)
(* string algebra (replace, split, join, contains, slicing) is computed    *)
(* character by character, as the code computes it.  The platform is the   *)
(* one the crate is written for (DISK_SEPARATOR ":" marks an absolute      *)
(* path, the unit tests use "C:" paths): a drive "C:", the working         *)
(* directory beneath it, and the operating system joining a directory and  *)
(* a child name with a backslash.                                          *)
(***************************************************************************)
EXTENDS Naturals, Sequences, FiniteSets, TLC

(***************************************************************************)
(* str: the operations of Rust's str the crate uses.                       *)
(***************************************************************************)

\* The characters of a string.
Chars(s) == {s[i] : i \in 1..Len(s)}
Range(seq) == {seq[i] : i \in 1..Len(seq)}

\* The one element of a singleton set: `TheOne({F(x) : x \in {e}})` is F(e)
\* with e evaluated once.
TheOne(S) == CHOOSE x \in S : TRUE

\* s[from..] in Rust's 0-based slicing: s without its first `from` characters.
SliceFrom(s, from) == SubSeq(s, from + 1, Len(s))

\* pat occurs in s at the 1-based position i.
OccursAt(s, pat, i) ==
    /\ i + Len(pat) - 1 <= Len(s)
    /\ \A k \in 1..Len(pat) : s[i + k - 1] = pat[k]

\* str::contains(pat).
str_contains(s, pat) == \E i \in 1..(Len(s) + 1) : OccursAt(s, pat, i)

\* str::ends_with(pat).
str_ends_with(s, pat) ==
    /\ Len(pat) <= Len(s)
    /\ OccursAt(s, pat, Len(s) - Len(pat) + 1)

\* str::replace(from, to): the non-overlapping matches, left to right, from
\* the 1-based position i on.
RECURSIVE ReplaceFrom(_, _, _, _)
ReplaceFrom(s, from, to, i) ==
    IF i > Len(s) THEN << >>
    ELSE IF OccursAt(s, from, i)
         THEN to \o ReplaceFrom(s, from, to, i + Len(from))
         ELSE <<s[i]>> \o ReplaceFrom(s, from, to, i + 1)

str_replace(s, from, to) ==
    IF ~str_contains(s, from) THEN s ELSE ReplaceFrom(s, from, to, 1)

\* str::split(sep) for a one-character separator: always at least one piece.
\* The pieces of s from the 1-based position start on, i the position read.
RECURSIVE SplitFrom(_, _, _, _)
SplitFrom(s, sep, start, i) ==
    IF i > Len(s) THEN <<SubSeq(s, start, Len(s))>>
    ELSE IF s[i] = sep[1]
         THEN <<SubSeq(s, start, i - 1)>> \o SplitFrom(s, sep, i + 1, i + 1)
         ELSE SplitFrom(s, sep, start, i + 1)

str_split(s, sep) == SplitFrom(s, sep, 1, 1)

\* [&str]::join(sep).
RECURSIVE str_join(_, _)
str_join(nodes, sep) ==
    IF nodes = << >> THEN << >>
    ELSE IF Len(nodes) = 1 THEN nodes[1]
    ELSE nodes[1] \o sep \o str_join(Tail(nodes), sep)

\* str::trim_end_matches(pat): the suffix pat removed as often as it occurs.
RECURSIVE str_trim_end_matches(_, _)
str_trim_end_matches(s, pat) ==
    IF pat # << >> /\ str_ends_with(s, pat)
    THEN str_trim_end_matches(SubSeq(s, 1, Len(s) - Len(pat)), pat)
    ELSE s

\* Vec::remove(index) with Rust's 0-based index.
VecRemove(seq, index) == SubSeq(seq, 1, index) \o SubSeq(seq, index + 2, Len(seq))

(***************************************************************************)
(* file_ref.rs: the separators.                                            *)
(***************************************************************************)
SEPARATOR == <<"/">>
INVALID_SEPARATOR == <<"\\">>
DOUBLE_SEPARATOR == <<"/", "/">>
DISK_SEPARATOR == <<":">>

DotDot == <<".", ".">>
Dot == <<".">>

\* The value that stands for a panic of FilePath::new: it is no path, and
\* every string built from it is PANIC again.
PANIC == <<"!">>
IsPanic(s) == "!" \in Chars(s)

\* A collapse of doubled separators that makes one pass where the code loops.
CollapseDoubleSeparators_once(path) == str_replace(path, DOUBLE_SEPARATOR, SEPARATOR)

\* FilePath::new, lines 27-29: collapse doubled separators until none is left.
RECURSIVE CollapseDoubleSeparators(_)
CollapseDoubleSeparators(path) ==
    IF str_contains(path, DOUBLE_SEPARATOR)
    THEN CollapseDoubleSeparators(str_replace(path, DOUBLE_SEPARATOR, SEPARATOR))
    ELSE path

\* FilePath::new, lines 35-44: the loop that removes `x/..` pairs.  index is
\* Rust's 0-based index; after a removal the loop restarts at index 0, and
\* there `nodes[index - 1]` underflows the usize index when nodes[0] is `..`:
\* the subtraction (or the out-of-range access it leads to) panics.
RECURSIVE RemoveDotDotLoop(_, _)
RemoveDotDotLoop(nodes, index) ==
    IF ~(index < Len(nodes)) THEN nodes
    ELSE IF nodes[index + 1] = DotDot
         THEN IF index = 0 THEN <<PANIC>>
              ELSE IF nodes[index] # DotDot
                   THEN RemoveDotDotLoop(VecRemove(VecRemove(nodes, index), index - 1), 0)
                   ELSE RemoveDotDotLoop(nodes, index + 1)
         ELSE RemoveDotDotLoop(nodes, index + 1)

\* FilePath::new, lines 33-45.
RemoveDotDot(nodes) ==
    IF Len(nodes) >= 2 THEN RemoveDotDotLoop(nodes, 1) ELSE nodes

\* A removal of `.` nodes that removes nothing.
RemoveDot_keep(nodes) == nodes

\* FilePath::new, lines 47-50: drop the `.` nodes unless every node is `.`.
IsNotDot(node) == node # Dot
RemoveDot(nodes) ==
    IF (\E i \in 1..Len(nodes) : nodes[i] = Dot) /\ ~(\A i \in 1..Len(nodes) : nodes[i] = Dot)
    THEN SelectSeq(nodes, IsNotDot)
    ELSE nodes

\* FilePath::new / FileRef::new: the normalised path, or PANIC.
FilePath_new(path) ==
    IF IsPanic(path) THEN PANIC
    ELSE TheOne({IF nodes = <<PANIC>> THEN PANIC ELSE str_join(RemoveDot(nodes), SEPARATOR) :
                   nodes \in {RemoveDotDot(str_split(
                                 CollapseDoubleSeparators(
                                    str_replace(path, INVALID_SEPARATOR, SEPARATOR)),
                                 SEPARATOR))}})


(***************************************************************************)
(* The program's state.                                                    *)
(***************************************************************************)
VARIABLES
    cwd,              \* std::env::current_dir(), as the OS displays it
    fs,               \* the filesystem beneath cwd: the paths of its dirs and files
    reversed,         \* the order in which the OS lists a directory (one of two)
    source_dir,       \* FileScanner.source_dir
    include_files,    \* FileScanner.include_files
    include_dirs,     \* FileScanner.include_dirs
    results_filter,   \* FileScanner.results_filter
    recurse_filter,   \* FileScanner.recurse_filter
    cursor,           \* FileScanner.cursor: [dir, last_parsed_file]
    started,          \* next() has been called on the scanner
    results,          \* what the calls of next() returned so far, in order
    crashed,          \* a call of next() panicked
    listings,         \* the directories read so far, with what each read returned
    changes,          \* how often the filesystem was changed under the scanner
    include_self,     \* the scanner's include_self setting
    self_emitted,     \* the root was yielded as the scanner's own entry
    operand,          \* the string a path operation is applied to
    outcome,          \* the operation applied last, with what it returned
    contents,         \* the bytes of each file of fs
    monitor,          \* a DirMonitor, the notifications of the OS and the handler calls
    temp              \* the TempFile statics, the threads and the live TempFile values

scanner == <<source_dir, include_files, include_dirs, results_filter, recurse_filter, cursor>>
vars == <<cwd, fs, reversed, source_dir, include_files, include_dirs, results_filter,
          recurse_filter, cursor, started, results, crashed, listings, changes,
          include_self, self_emitted, operand, outcome, contents, monitor, temp>>

\* The state of the directory monitor and of the temp files.
rest_vars == <<monitor, temp>>

\* The state of the files' contents.
file_vars == <<contents>>

\* The state of the path operations.
path_vars == <<operand, outcome>>

\* The state of the include_self setting.
self_vars == <<include_self, self_emitted>>

\* DirMonitor::new (dir_monitor.rs:30-40): no handler is registered; nothing
\* was notified, read or called yet.
MonitorIdle ==
    [pc |-> "building", handlers |-> << >>, events |-> << >>, pending |-> << >>,
     delivered |-> << >>, buffer |-> << >>, calls |-> << >>, condition |-> "none",
     result |-> "none"]

\* The threads that use TempFile values, and the values they make in all.
MaxThreads == 2
MaxValues == 3
Threads == 1..MaxThreads

\* A thread outside every call of TempFile.
ThreadIdle == [pc |-> "idle", extension |-> << >>, file |-> << >>, dropping |-> 0]

\* The statics of temp_file.rs (lines 7-8) before any call: no path is
\* reserved, the index is 0 and the lock of RESERVED_FILES is free (lock is
\* the thread that holds it, 0 for none); no thread is inside a call and no
\* value was made; TEMP_FILE_DIR does not exist and holds no file.
\* deleted_with collects the values that were alive when TEMP_FILE_DIR was
\* deleted.
TempIdle ==
    [reserved_files |-> << >>, reserved_file_index |-> 0, lock |-> 0,
     threads |-> [t \in Threads |-> ThreadIdle], values |-> {}, made |-> 0,
     dir_exists |-> FALSE, files |-> {}, deleted_with |-> {}]

\* Option<T>: None is the empty sequence, Some(x) the sequence of x alone.
None == << >>
Some(x) == <<x>>

(***************************************************************************)
(* The operating system: path resolution, metadata, read_dir.              *)
(***************************************************************************)

\* The drive all paths of the model live on.
Drive == <<"C", ":">>

\* The order in which the OS lists the entries of a directory, by name: this
\* order or its reverse, the same for every read (the OS's order is stable).
ListingOrder ==
    <<<<"a">>, <<"b">>, <<"c">>, <<"f", ".", "t">>, <<"g", ".", "t">>, <<"h">>, <<"j", ".", "t">>>>

Reverse(seq) == [i \in 1..Len(seq) |-> seq[Len(seq) + 1 - i]]

IsNotEmptyOrDot(node) == node # << >> /\ node # Dot

\* `..` steps resolved against the nodes before them; the drive has no parent.
RECURSIVE OsWalk(_, _)
OsWalk(base, rest) ==
    IF rest = << >> THEN base
    ELSE IF Head(rest) = DotDot
         THEN OsWalk(IF Len(base) > 1 THEN SubSeq(base, 1, Len(base) - 1) ELSE base, Tail(rest))
         ELSE OsWalk(Append(base, Head(rest)), Tail(rest))

\* The nodes of a path as the OS reads it: both separators, no empty node, no `.`.
OsSplit(path) ==
    SelectSeq(str_split(str_replace(path, INVALID_SEPARATOR, SEPARATOR), SEPARATOR),
              IsNotEmptyOrDot)

\* The absolute nodes the OS resolves a path to: a path that names the drive
\* is resolved from the drive, any other path from the working directory.
OsNodes(path) ==
    TheOne({IF nodes # << >> /\ str_contains(nodes[1], DISK_SEPARATOR)
            THEN OsWalk(<<nodes[1]>>, Tail(nodes))
            ELSE OsWalk(OsSplit(cwd), nodes) :
              nodes \in {OsSplit(path)}})

\* The canonical absolute path of a path, the key of an entry in fs.
OsCanon(path) == str_join(OsNodes(path), SEPARATOR)

\* The directories that exist whatever the filesystem holds: the drive and
\* the working directory.
FixedDirs == {Drive, OsCanon(cwd)}

\* std::path::Path::exists / std::fs::metadata(path).is_ok() in the filesystem f.
OsExists(f, path) ==
    path # << >> /\ OsCanon(path) \in (f.dirs \cup f.files \cup FixedDirs)

\* std::fs::metadata(path).is_dir() in the filesystem f.
OsIsDir(f, path) == path # << >> /\ OsCanon(path) \in (f.dirs \cup FixedDirs)

\* The names of the children of a directory of f, in the OS's order.
OsChildren(f, canon) ==
    LET cwd_nodes == OsNodes(cwd)
        names == ListingOrder \o <<cwd_nodes[Len(cwd_nodes)]>>
        IsChild(child) ==
            (canon \o SEPARATOR \o child) \in (f.dirs \cup f.files \cup FixedDirs)
    IN  SelectSeq(IF reversed THEN Reverse(names) ELSE names, IsChild)

\* std::path::Path::join(name).display(): the separator the OS adds is `\`.
PathJoin(path, name) ==
    IF str_ends_with(path, SEPARATOR) \/ str_ends_with(path, INVALID_SEPARATOR)
    THEN path \o name
    ELSE path \o INVALID_SEPARATOR \o name

\* std::fs::read_dir(path): Ok with the children's paths, or Err (the empty
\* Option) for a path that does not exist or is no directory.
read_dir(path) ==
    IF OsIsDir(fs, path)
    THEN LET kids == OsChildren(fs, OsCanon(path))
         IN  Some([i \in 1..Len(kids) |-> PathJoin(path, kids[i])])
    ELSE None

(***************************************************************************)
(* file_ref.rs: FileRef.  A FileRef is its path; a Result is a record with *)
(* tag "Ok", "Err" or "Panic" and, when Ok, the value.                     *)
(***************************************************************************)
Ok(x) == [tag |-> "Ok", val |-> x]
Err == [tag |-> "Err", val |-> << >>]
Panic == [tag |-> "Panic", val |-> << >>]

\* FileRef::new.
FileRef_new(path) == FilePath_new(path)

\* impl Add<&str> for FileRef.
FileRef_add(self, rhs) == FileRef_new(self \o rhs)

\* FileRef::working_dir.
working_dir == FileRef_new(cwd)

\* FileRef::is_absolute_path.
is_absolute_path(self) == str_contains(self, DISK_SEPARATOR)

\* An is_relative_path for which no path is relative.
is_relative_path_never(self) == FALSE

\* FileRef::is_relative_path.
is_relative_path(self) == ~is_absolute_path(self)

\* FileRef::absolute.
absolute(self) ==
    IF is_absolute_path(self) THEN self
    ELSE FileRef_add(FileRef_add(working_dir, SEPARATOR), self)

\* A path_nodes that keeps the trailing empty nodes.
DropTrailingEmpty_keep(parts) == parts

\* FileRef::path_nodes: the nodes of the path without the trailing empty ones.
RECURSIVE DropTrailingEmpty(_)
DropTrailingEmpty(parts) ==
    IF parts # << >> /\ parts[Len(parts)] = << >>
    THEN DropTrailingEmpty(SubSeq(parts, 1, Len(parts) - 1))
    ELSE parts

path_nodes(self) == DropTrailingEmpty(str_split(self, SEPARATOR))

\* FileRef::last_node and FileRef::name.
last_node(self) == TheOne({parts[Len(parts)] : parts \in {str_split(self, SEPARATOR)}})
name(self) == last_node(self)

\* FileRef::parent_dir of a path with two nodes or more (lines 159-160).
ParentOfNodes(self) ==
    TheOne({FileRef_new(SubSeq(self, 1,
                               Len(str_join(SubSeq(nodes, 1, Len(nodes) - 1), SEPARATOR)))) :
              nodes \in {path_nodes(self)}})

\* FileRef::parent_dir.
RECURSIVE parent_dir(_)
parent_dir(self) ==
    TheOne({IF nodes # << >> /\ nodes[Len(nodes)] = DotDot
            THEN TheOne({IF IsPanic(up) THEN Panic ELSE Ok(up) :
                           up \in {FileRef_add(self, SEPARATOR \o DotDot)}})
            ELSE IF Len(nodes) <= 1
            THEN IF is_relative_path(self)
                 THEN TheOne({IF IsPanic(abs) THEN Panic ELSE parent_dir(abs) :
                                abs \in {absolute(self)}})
                 ELSE Err
            ELSE Ok(ParentOfNodes(self)) :
              nodes \in {path_nodes(self)}})

\* impl PartialEq for FileRef: "true", "false", or "panic" when one of the
\* absolute forms cannot be built.
FileRef_eq(self, other) ==
    IF self = other THEN "true"
    ELSE TheOne({IF IsPanic(a) THEN "panic"
                 ELSE TheOne({IF IsPanic(b) THEN "panic"
                              ELSE IF a = b THEN "true" ELSE "false" :
                                b \in {absolute(other)}}) :
                   a \in {absolute(self)}})

\* FileRef::extension: None, or the part of the name after its last `.`.
extension(self) ==
    TheOne({IF str_contains(file_name, Dot)
            THEN TheOne({Some(parts[Len(parts)]) : parts \in {str_split(file_name, Dot)}})
            ELSE None :
              file_name \in {name(self)}})

\* FileRef::exists, in the filesystem f and in the current one.
exists_in(f, self) == OsExists(f, self)
exists(self) == exists_in(fs, self)

\* An is_dir that asks the metadata alone.
is_dir_in_metadata(f, self) == OsIsDir(f, self)

\* FileRef::is_dir: the metadata of a path that exists, the extension rule
\* for one that does not; in the filesystem f and in the current one.
is_dir_in(f, self) ==
    IF exists_in(f, self) THEN OsIsDir(f, self)
    ELSE TheOne({IF ext = None THEN TRUE ELSE ext[1] = << >> : ext \in {extension(self)}})
is_dir(self) == is_dir_in(fs, self)

\* FileRef::is_file.
is_file(self) == ~is_dir(self)

\* FileRef::trim_end_matches (impl_inherit_str, ret_self).
trim_end_matches(self, pat) == FileRef_new(str_trim_end_matches(self, pat))

\* FileRef::contains (impl_inherit_str).
contains(self, pattern) == str_contains(self, pattern)

\* std::fs::create_dir / std::fs::File::create of a path that does not exist:
\* Ok with the new filesystem when the parent is a directory, else Err.
OsCreate(f, path, as_dir) ==
    LET canon == OsCanon(path)
        nodes == OsNodes(path)
        parent == str_join(SubSeq(nodes, 1, Len(nodes) - 1), SEPARATOR)
    IN  IF path = << >> \/ OsExists(f, path) \/ parent \notin (f.dirs \cup FixedDirs)
        THEN [tag |-> "Err", fs |-> f]
        ELSE IF as_dir
        THEN [tag |-> "Ok", fs |-> [f EXCEPT !.dirs = @ \cup {canon}]]
        ELSE [tag |-> "Ok", fs |-> [f EXCEPT !.files = @ \cup {canon}]]

\* FileRef::create (lines 369-384) and FileRef::guarantee_parent_dir (lines
\* 359-366), in the filesystem f: the tag of the Result and the filesystem after.
RECURSIVE create_in(_, _), guarantee_parent_dir_in(_, _)
guarantee_parent_dir_in(f, self) ==
    LET parent == parent_dir(self)
    IN  IF parent.tag # "Ok" THEN [tag |-> parent.tag, fs |-> f]
        ELSE IF ~exists_in(f, parent.val)
        THEN LET above == guarantee_parent_dir_in(f, parent.val)
             IN  IF above.tag # "Ok" THEN above ELSE create_in(above.fs, parent.val)
        ELSE [tag |-> "Ok", fs |-> f]

create_in(f, self) ==
    IF exists_in(f, self) THEN [tag |-> "Err", fs |-> f]
    ELSE LET parents == guarantee_parent_dir_in(f, self)
         IN  IF parents.tag # "Ok" THEN parents
             ELSE OsCreate(parents.fs, self, is_dir_in(f, self))

\* FileRef::delete (lines 537-545) in the filesystem f: remove_dir_all of a
\* directory with all beneath it, remove_file of a file.
delete_in(f, self) ==
    LET canon == OsCanon(self)
        Beneath(p) == p = canon \/ (Len(p) > Len(canon) /\ SubSeq(p, 1, Len(canon) + 1) = canon \o SEPARATOR)
    IN  IF is_dir_in(f, self)
        THEN IF self # << >> /\ canon \in f.dirs
             THEN [tag |-> "Ok", fs |-> [dirs |-> {p \in f.dirs : ~Beneath(p)},
                                         files |-> {p \in f.files : ~Beneath(p)}]]
             ELSE [tag |-> "Err", fs |-> f]
        ELSE IF self # << >> /\ canon \in f.files
             THEN [tag |-> "Ok", fs |-> [f EXCEPT !.files = @ \ {canon}]]
             ELSE [tag |-> "Err", fs |-> f]

(***************************************************************************)
(* file_scanner.rs: FileScanner.                                           *)
(***************************************************************************)

\* The filters (ResultFilter closures) of the model: `|_| true`, `|_| false`,
\* and the name tests `|f| f.name() != "b"` (b is a directory of the trees)
\* and `|f| f.name() != "g.t"` (g.t is a file of the trees).
ResultFilters == {"all", "none", "not_g"}
RecurseFilters == {"all", "none", "not_b"}

\* (filter)(&entry).
Accepts(filter, entry) ==
    CASE filter = "all" -> TRUE
      [] filter = "none" -> FALSE
      [] filter = "not_b" -> name(entry) # <<"b">>
      [] filter = "not_g" -> name(entry) # <<"g", ".", "t">>

\* The directories read by a call, by canonical path: those read at least
\* once, and those read more than once.
NoReads == [once |-> {}, twice |-> {}]
OneRead(dir) == [once |-> {OsCanon(dir)}, twice |-> {}]
MergeReads(r1, r2) ==
    [once |-> r1.once \cup r2.once,
     twice |-> r1.twice \cup r2.twice \cup (r1.once \cap r2.once)]

\* find_next_file_at, line 102: `entries.iter().position(|entry| entry ==
\* skipping_entry)`, from the 1-based index i on: Ok with the number of
\* entries to skip (0 when the entry is not found), or Panic.
RECURSIVE Position(_, _, _)
Position(entries, skipping_entry, i) ==
    IF i > Len(entries) THEN Ok(0)
    ELSE LET eq == FileRef_eq(entries[i], skipping_entry)
         IN  IF eq = "panic" THEN Panic
             ELSE IF eq = "true" THEN Ok(i)
             ELSE Position(entries, skipping_entry, i + 1)

\* find_next_file_at, line 124: the parent directory is inside the source dir.
InSourceDir(parent) == contains(parent, source_dir)

\* A result of find_next_file_at: Ok(entry), Err or Panic, with the
\* directories read on the way.
Found(tag, val, reads) == [tag |-> tag, val |-> val, reads |-> reads]
WithReads(found, reads) == [found EXCEPT !.reads = MergeReads(reads, found.reads)]

\* A find_next_file_at that takes a directory it cannot read for a fatal error.
CollectEntries_unwrap(dir) ==
    LET results_ == read_dir(dir)
        collected == IF results_ = None THEN <<[ref |-> PANIC, dir |-> FALSE]>>
                     ELSE [i \in 1..Len(results_[1]) |->
                             TheOne({[ref |-> e, dir |-> IF IsPanic(e) THEN FALSE ELSE is_dir(e)] :
                                       e \in {FileRef_new(results_[1][i])}})]
        IsDirEntry(e) == e.dir
        IsFileEntry(e) == ~e.dir
    IN  SelectSeq(collected, IsDirEntry) \o SelectSeq(collected, IsFileEntry)

\* find_next_file_at (lines 91-134).  Its parts, in the order of the code:
\*   CollectEntries  lines 95-101, the entries of dir, directories first,
\*                   each with its is_dir() (the filesystem does not change
\*                   during a call, so every is_dir() of an entry agrees);
\*   IterateEntries  lines 106-120, the loop from the 1-based index i on;
\*   AscendFrom      lines 122-132, the search in the parent directory.
CollectEntries(dir) ==
    LET results_ == read_dir(dir)
        collected == IF results_ = None THEN << >>
                     ELSE [i \in 1..Len(results_[1]) |->
                             TheOne({[ref |-> e, dir |-> IF IsPanic(e) THEN FALSE ELSE is_dir(e)] :
                                       e \in {FileRef_new(results_[1][i])}})]
        IsDirEntry(e) == e.dir
        IsFileEntry(e) == ~e.dir
    IN  SelectSeq(collected, IsDirEntry) \o SelectSeq(collected, IsFileEntry)

\* A find_next_file_at that does not ask the result filter.
IsResult_unfiltered(entry) ==
    \/ entry.dir /\ include_dirs
    \/ ~entry.dir /\ include_files

\* find_next_file_at, line 110: the entry is a result.
IsResult(entry) ==
    /\ \/ entry.dir /\ include_dirs
       \/ ~entry.dir /\ include_files
    /\ Accepts(results_filter, entry.ref)

\* A find_next_file_at that recurses into every directory.
IsRecursedInto_unfiltered(entry) == entry.dir

\* find_next_file_at, line 115: the entry is a directory to recurse into.
IsRecursedInto(entry) == entry.dir /\ Accepts(recurse_filter, entry.ref)

RECURSIVE find_next_file_at(_, _), IterateEntries(_, _, _), AfterRecursion(_, _, _, _),
          AscendFrom(_, _, _), FindAmong(_, _, _)

IterateEntries(entries, i, reads) ==
    IF i > Len(entries) THEN Found("Err", << >>, reads)
    ELSE IF IsResult(entries[i]) THEN Found("Ok", entries[i].ref, reads)
    ELSE IF IsRecursedInto(entries[i])
    THEN TheOne({AfterRecursion(entries, i, reads, found) :
                    found \in {find_next_file_at(entries[i].ref, None)}})
    ELSE IterateEntries(entries, i + 1, reads)

\* Lines 116-118: the result of the recursion is returned unless it is Err.
AfterRecursion(entries, i, reads, found) ==
    IF found.tag = "Err"
    THEN IterateEntries(entries, i + 1, MergeReads(reads, found.reads))
    ELSE WithReads(found, reads)

AscendFrom(dir, reads, parent) ==
    IF parent.tag = "Panic" THEN Found("Panic", << >>, reads)
    ELSE IF parent.tag = "Ok" /\ InSourceDir(parent.val)
    THEN WithReads(find_next_file_at(parent.val, Some(dir)), reads)
    ELSE Found("Err", << >>, reads)

\* Lines 102-132, on the entries collected.
FindAmong(dir, last_parsed_file, entries) ==
    IF \E i \in 1..Len(entries) : IsPanic(entries[i].ref)
    THEN Found("Panic", << >>, OneRead(dir))
    ELSE TheOne({IF start_entry_index.tag = "Panic"
                 THEN Found("Panic", << >>, OneRead(dir))
                 ELSE TheOne({IF in_dir.tag # "Err" THEN in_dir
                              ELSE AscendFrom(dir, in_dir.reads, parent_dir(dir)) :
                                in_dir \in {IterateEntries(SliceFrom(entries, start_entry_index.val),
                                                           1, OneRead(dir))}}) :
                   start_entry_index \in
                      {IF last_parsed_file = None THEN Ok(0)
                       ELSE Position([i \in 1..Len(entries) |-> entries[i].ref],
                                     last_parsed_file[1], 1)}})

find_next_file_at(dir, last_parsed_file) ==
    TheOne({FindAmong(dir, last_parsed_file, entries) : entries \in {CollectEntries(dir)}})

\* find_next_file_at_cursor (lines 72-88): the result of the call and the
\* cursor after it.  When parent_dir fails (the `?` of line 80) the call
\* returns Err and the cursor keeps its value.
CursorAfter(found) ==
    IF found.tag # "Ok" THEN [result |-> found, cursor |-> cursor]
    ELSE IF is_dir(found.val) /\ Accepts(recurse_filter, found.val)
    THEN [result |-> found,
          cursor |-> [dir |-> found.val, last_parsed_file |-> None]]
    ELSE TheOne({IF parent.tag = "Ok"
                 THEN [result |-> found,
                       cursor |-> [dir |-> parent.val, last_parsed_file |-> Some(found.val)]]
                 ELSE [result |-> [found EXCEPT !.tag = parent.tag, !.val = << >>],
                       cursor |-> cursor] :
                   parent \in {parent_dir(found.val)}})

find_next_file_at_cursor ==
    TheOne({CursorAfter(found) :
               found \in {find_next_file_at(cursor.dir, cursor.last_parsed_file)}})

(***************************************************************************)
(* The inputs: working directories, directory trees, scan roots.           *)
(***************************************************************************)

\* The working directories, as the OS displays them: C:\w and C:\ha.
WorkingDirs == {<<"C", ":", "\\", "w">>, <<"C", ":", "\\", "h", "a">>}

\* The paths of the trees, relative to the working directory.
P_a == <<"a">>
P_ab == <<"a", "/", "b">>
P_abf == <<"a", "/", "b", "/", "f", ".", "t">>
P_ac == <<"a", "/", "c">>
P_acf == <<"a", "/", "c", "/", "f", ".", "t">>
P_ag == <<"a", "/", "g", ".", "t">>
P_h == <<"h">>
P_j == <<"j", ".", "t">>

\* The directory trees a scan starts on, relative to the working directory.
FullTree == [dirs |-> {P_a, P_ab, P_ac}, files |-> {P_abf, P_acf, P_ag, P_h, P_j}]
MidTree == [dirs |-> {P_a, P_ab, P_ac}, files |-> {P_abf, P_h}]
FlatTree == [dirs |-> {P_a}, files |-> {P_ag, P_j}]
FilesTree == [dirs |-> {}, files |-> {P_h, P_j}]
Trees == {FullTree, MidTree, FlatTree, FilesTree}

\* The absolute path of a in the working directory dir, as a FileRef spells it.
AbsoluteA(dir) == str_replace(dir, INVALID_SEPARATOR, SEPARATOR) \o SEPARATOR \o P_a

\* The strings a scan root is built from in the working directory dir: `a`,
\* `a/`, `.`, `a/b`, the absolute path of a, and the files `h` and `a/g.t`.
RootsIn(dir) == {P_a, P_a \o SEPARATOR, Dot, P_ab, AbsoluteA(dir), P_h, P_ag}

\* A scan: a tree and the root scanned.  The scan of `..`, the parent of the
\* working directory, runs on the tree of two files.
Scans(dir) ==
    {[tree |-> tree, root |-> root] : tree \in Trees, root \in RootsIn(dir)}
      \cup {[tree |-> FilesTree, root |-> DotDot]}

\* The scans during which the filesystem is changed, and the paths
\* FileRef::create and FileRef::delete are called on.
ScansFs(dir) ==
    {[tree |-> tree, root |-> AbsoluteA(dir)] : tree \in {FullTree, MidTree, FlatTree}}
ChangedPaths == {P_ab, P_ag, P_acf}

\* How many calls of next() a run has, how many of them return None, and how
\* many changes of the filesystem it has.
MaxCalls == 12
MaxNone == 2
MaxChanges == 2

(***************************************************************************)
(* The state machine.                                                      *)
(***************************************************************************)

\* FileScanner::new (lines 25-35) on FileRef::new(root), in the working
\* directory dir holding the tree, for the scans of a set.
InitOn(dir, scans) ==
    /\ cwd = dir
    /\ reversed \in BOOLEAN
    /\ \E scan \in scans :
          /\ fs = [dirs |-> {OsCanon(p) : p \in scan.tree.dirs},
                   files |-> {OsCanon(p) : p \in scan.tree.files}]
          /\ source_dir = trim_end_matches(FileRef_new(scan.root), SEPARATOR)
          /\ cursor = [dir |-> FileRef_new(scan.root), last_parsed_file |-> None]
    /\ include_files = FALSE
    /\ include_dirs = FALSE
    /\ results_filter = "all"
    /\ recurse_filter = "none"
    /\ started = FALSE
    /\ results = << >>
    /\ crashed = FALSE
    /\ listings = [first |-> {}, again |-> {}]
    /\ changes = 0
    /\ include_self = FALSE
    /\ self_emitted = FALSE
    /\ operand = << >>
    /\ outcome = [op |-> "none"]
    /\ contents = << >>
    /\ monitor = MonitorIdle
    /\ temp = TempIdle

Init == \E dir \in WorkingDirs : InitOn(dir, Scans(dir))
InitFs == \E dir \in WorkingDirs : InitOn(dir, ScansFs(dir))

observed == <<started, results, crashed, listings>>
world == <<cwd, fs, reversed, changes>>

\* FileScanner::include_files (lines 38-41).
FileScanner_include_files ==
    /\ ~started /\ ~include_files
    /\ include_files' = TRUE
    /\ UNCHANGED <<source_dir, include_dirs, results_filter, recurse_filter, cursor>>
    /\ UNCHANGED <<observed, world, self_vars, path_vars, file_vars, rest_vars>>

\* FileScanner::include_dirs (lines 44-47).
FileScanner_include_dirs ==
    /\ ~started /\ ~include_dirs
    /\ include_dirs' = TRUE
    /\ UNCHANGED <<source_dir, include_files, results_filter, recurse_filter, cursor>>
    /\ UNCHANGED <<observed, world, self_vars, path_vars, file_vars, rest_vars>>

\* FileScanner::with_filter (lines 50-53).
FileScanner_with_filter ==
    /\ ~started
    /\ \E filter \in ResultFilters \ {results_filter} : results_filter' = filter
    /\ UNCHANGED <<source_dir, include_files, include_dirs, recurse_filter, cursor>>
    /\ UNCHANGED <<observed, world, self_vars, path_vars, file_vars, rest_vars>>

\* FileScanner::with_recurse_filter (lines 61-64).
FileScanner_with_recurse_filter ==
    /\ ~started
    /\ \E filter \in (RecurseFilters \ {"all", recurse_filter}) : recurse_filter' = filter
    /\ UNCHANGED <<source_dir, include_files, include_dirs, results_filter, cursor>>
    /\ UNCHANGED <<observed, world, self_vars, path_vars, file_vars, rest_vars>>

\* FileScanner::recurse (lines 56-58): with_recurse_filter(|_| true).
FileScanner_recurse ==
    /\ ~started /\ recurse_filter # "all"
    /\ recurse_filter' = "all"
    /\ UNCHANGED <<source_dir, include_files, include_dirs, results_filter, cursor>>
    /\ UNCHANGED <<observed, world, self_vars, path_vars, file_vars, rest_vars>>

\* What the directories read by a call add to the record of the listings.
ListingsAfter(reads) ==
    [first |-> listings.first \cup
                  {[dir |-> d, kids |-> {d \o SEPARATOR \o k : k \in Range(OsChildren(fs, d))}] :
                     d \in {r \in reads.once : \A l \in listings.first : l.dir # r}},
     again |-> listings.again \cup reads.twice \cup
                  {r \in reads.once : \E l \in listings.first : l.dir = r}]

\* The calls of next() so far that returned None.
NoneResults == {i \in 1..Len(results) : results[i].item = None}

\* Iterator::next for FileScanner (lines 139-141): one call, with the cursor
\* update of find_next_file_at_cursor.
FileScanner_next ==
    /\ ~crashed
    /\ Len(results) < MaxCalls
    /\ Cardinality(NoneResults) < MaxNone
    /\ \E call \in {find_next_file_at_cursor} :
          /\ cursor' = call.cursor
          /\ crashed' = (call.result.tag = "Panic")
          /\ results' = IF call.result.tag = "Panic" THEN results
                        ELSE Append(results,
                                    IF call.result.tag = "Ok"
                                    THEN [item |-> Some(call.result.val),
                                          was_dir |-> is_dir(call.result.val),
                                          canon |-> OsCanon(call.result.val)]
                                    ELSE [item |-> None, was_dir |-> FALSE, canon |-> << >>])
          /\ listings' = ListingsAfter(call.result.reads)
    /\ started' = TRUE
    /\ UNCHANGED <<source_dir, include_files, include_dirs, results_filter, recurse_filter>>
    /\ UNCHANGED <<world, self_vars, path_vars, file_vars, rest_vars>>

\* FileRef::create on a path of the tree while the scan runs.
FileRef_create ==
    /\ started /\ ~crashed
    /\ changes < MaxChanges
    /\ \E p \in ChangedPaths :
          LET done == create_in(fs, FileRef_new(p))
          IN  done.tag = "Ok" /\ fs' = done.fs
    /\ changes' = changes + 1
    /\ UNCHANGED <<cwd, reversed, scanner, observed, self_vars, path_vars, file_vars, rest_vars>>

\* FileRef::delete on a path of the tree while the scan runs.
FileRef_delete ==
    /\ started /\ ~crashed
    /\ changes < MaxChanges
    /\ \E p \in ChangedPaths :
          LET done == delete_in(fs, FileRef_new(p))
          IN  done.tag = "Ok" /\ fs' = done.fs
    /\ changes' = changes + 1
    /\ UNCHANGED <<cwd, reversed, scanner, observed, self_vars, path_vars, file_vars, rest_vars>>

Configure ==
    \/ FileScanner_include_files
    \/ FileScanner_include_dirs
    \/ FileScanner_with_filter
    \/ FileScanner_with_recurse_filter
    \/ FileScanner_recurse

\* A scan of a directory tree that does not change.
Next == Configure \/ FileScanner_next
Spec == Init /\ [][Next]_vars

\* A scan of a directory tree that is changed between the calls of next().
NextFs == Next \/ FileRef_create \/ FileRef_delete
SpecFs == InitFs /\ [][NextFs]_vars

\* include_self(): the root itself becomes a candidate result.
FileScanner_include_self ==
    /\ ~started /\ ~include_self
    /\ include_self' = TRUE
    /\ UNCHANGED <<scanner, observed, world, self_emitted, path_vars, file_vars, rest_vars>>

\* The root is due as the scanner's own entry: include_self is set, the root
\* was not yet emitted, it exists and the result filter accepts it.
SelfIsDue ==
    include_self /\ ~self_emitted /\ exists(source_dir) /\ Accepts(results_filter, source_dir)

\* next() of a scanner with the include_self setting: the root once, before
\* any directory is listed, then the entries Iterator::next finds.
FileScanner_next_self ==
    IF SelfIsDue
    THEN /\ ~crashed
         /\ Len(results) < MaxCalls
         /\ results' = Append(results, [item |-> Some(source_dir),
                                        was_dir |-> is_dir(source_dir),
                                        canon |-> OsCanon(source_dir)])
         /\ self_emitted' = TRUE
         /\ started' = TRUE
         /\ UNCHANGED <<scanner, crashed, listings, world, include_self, path_vars, file_vars, rest_vars>>
    ELSE FileScanner_next

\* A scan, of a tree that does not change, by a scanner with include_self().
NextSelf == Configure \/ FileScanner_include_self \/ FileScanner_next_self
SpecSelf == Init /\ [][NextSelf]_vars

(***************************************************************************)
(* file_ref.rs: the path value, its operators, its order.                  *)
(***************************************************************************)
\* enum FilePath (lines 15-19): a path is held by one of two variants.
Variants == <<"StaticStr", "Owned">>
FilePath_Owned(path) == [variant |-> "Owned", path |-> path]

\* FilePath::new_const (lines 57-59): the literal is kept as it is given.
new_const(path) == [variant |-> "StaticStr", path |-> path]

\* The place of a variant in the declaration of the enum.
Discriminant(value) == CHOOSE i \in 1..Len(Variants) : Variants[i] = value.variant

\* The byte of a character, for the characters of the inputs.
ByteOf(c) ==
    CASE c = "." -> 46
      [] c = "/" -> 47
      [] c = ":" -> 58
      [] c = "C" -> 67
      [] c = "\\" -> 92
      [] c = "a" -> 97
      [] c = "h" -> 104
      [] c = "w" -> 119

\* Ord for str: the order of the bytes, a prefix before its extensions.
RECURSIVE str_cmp(_, _)
str_cmp(a, b) ==
    IF a = << >> /\ b = << >> THEN "Equal"
    ELSE IF a = << >> THEN "Less"
    ELSE IF b = << >> THEN "Greater"
    ELSE IF ByteOf(Head(a)) < ByteOf(Head(b)) THEN "Less"
    ELSE IF ByteOf(Head(a)) > ByteOf(Head(b)) THEN "Greater"
    ELSE str_cmp(Tail(a), Tail(b))

\* derive(PartialOrd, Ord) on FilePath and on FileRef (lines 13, 77): the
\* variants compare by their place in the enum, and two values of one variant
\* by the string they hold.
FileRef_cmp(self, other) ==
    IF Discriminant(self) < Discriminant(other) THEN "Less"
    ELSE IF Discriminant(self) > Discriminant(other) THEN "Greater"
    ELSE str_cmp(self.path, other.path)

\* str::replace inherited by FileRef (line 690): the result is built by new.
FileRef_replace(self, from, to) == FileRef_new(str_replace(self, from, to))

(***************************************************************************)
(* The path operations as a state machine: an input string is chosen, and  *)
(* one operation is applied to the FileRef built from it.                  *)
(***************************************************************************)
MaxSegments == 4

\* The segments and the separators the input strings are written with.
Segments == {<<"a">>, Dot, DotDot, << >>}
Separators == {SEPARATOR, INVALID_SEPARATOR, INVALID_SEPARATOR \o SEPARATOR}

RECURSIVE SegmentPaths(_, _)
SegmentPaths(count, sep) ==
    IF count = 1 THEN Segments
    ELSE {path \o sep \o segment : path \in SegmentPaths(count - 1, sep), segment \in Segments}

\* Absolute paths: the drive alone, with a separator, and paths beneath it.
AbsolutePaths ==
    {<<"C", ":">>, <<"C", ":", "/">>, <<"C", ":", "/", "a">>, <<"C", ":", "\\", "a", "\\", ".", ".">>,
     <<"C", ":", "/", "w", "/", "a">>, <<"C", ":", "/", "a", "/", "a", "/">>}

InputPaths ==
    UNION {SegmentPaths(count, sep) : count \in 1..MaxSegments, sep \in Separators}
      \cup AbsolutePaths

\* The right-hand sides of `+` and `+=`, the patterns of replace and of
\* trim_end_matches, and the second and third values of a comparison.
AddOperands == {<<"/", ".", ".">>, <<"/", ".">>, <<"\\", "/", "a">>}
ReplaceOperands == {<<<<"a">>, DotDot>>, <<<<"a">>, << >>>>, <<DotDot, Dot>>}
TrimOperands == {SEPARATOR, <<"a">>}
OtherPaths == {<<"a">>, <<"C", ":", "/", "w", "/", "a">>, DotDot}
PathWorkingDir == <<"C", ":", "\\", "w">>

InitPath ==
    /\ cwd = PathWorkingDir
    /\ reversed = FALSE
    /\ fs = [dirs |-> {}, files |-> {}]
    /\ source_dir = trim_end_matches(FileRef_new(Dot), SEPARATOR)
    /\ cursor = [dir |-> FileRef_new(Dot), last_parsed_file |-> None]
    /\ include_files = FALSE
    /\ include_dirs = FALSE
    /\ results_filter = "all"
    /\ recurse_filter = "none"
    /\ started = FALSE
    /\ results = << >>
    /\ crashed = FALSE
    /\ listings = [first |-> {}, again |-> {}]
    /\ changes = 0
    /\ include_self = FALSE
    /\ self_emitted = FALSE
    /\ operand \in InputPaths
    /\ outcome = [op |-> "none"]
    /\ contents = << >>
    /\ monitor = MonitorIdle
    /\ temp = TempIdle

\* All but the outcome of a path operation.
path_frame == <<scanner, observed, world, self_vars, operand, file_vars, rest_vars>>

\* The FileRef built from the input, when FileRef::new returns.
Built == FileRef_new(operand)
IsBuilt == outcome.op = "none" /\ ~IsPanic(Built)

\* FileRef::new(operand).
Apply_new ==
    /\ outcome.op = "none"
    /\ outcome' = [op |-> "new", val |-> FileRef_new(operand)]
    /\ UNCHANGED path_frame

\* FileRef::new(FileRef::new(operand).path()).
Apply_new_again ==
    /\ outcome.op = "new" /\ ~IsPanic(outcome.val)
    /\ outcome' = [op |-> "new_again", of |-> outcome.val, val |-> FileRef_new(outcome.val)]
    /\ UNCHANGED path_frame

\* FileRef::new(operand) + rhs (lines 581-587).
Apply_add ==
    /\ IsBuilt
    /\ \E rhs \in AddOperands :
          outcome' = [op |-> "add", raw |-> Built \o rhs, val |-> FileRef_add(Built, rhs)]
    /\ UNCHANGED path_frame

\* file += rhs on FileRef::new(operand) (lines 588-592).
Apply_add_assign ==
    /\ IsBuilt
    /\ \E rhs \in AddOperands :
          outcome' = [op |-> "add_assign", raw |-> Built \o rhs, val |-> FileRef_new(Built \o rhs)]
    /\ UNCHANGED path_frame

\* FileRef::new(operand).replace(from, to).
Apply_replace ==
    /\ IsBuilt
    /\ \E pair \in ReplaceOperands :
          outcome' = [op |-> "replace", raw |-> str_replace(Built, pair[1], pair[2]),
                      val |-> FileRef_replace(Built, pair[1], pair[2])]
    /\ UNCHANGED path_frame

\* FileRef::new(operand).trim_end_matches(pat).
Apply_trim_end_matches ==
    /\ IsBuilt
    /\ \E pat \in TrimOperands :
          outcome' = [op |-> "trim", raw |-> str_trim_end_matches(Built, pat),
                      val |-> trim_end_matches(Built, pat)]
    /\ UNCHANGED path_frame

\* FileRef::new(operand).parent_dir(): Ok(path), Err, or a panic.
Apply_parent_dir ==
    /\ IsBuilt
    /\ outcome' = [op |-> "parent_dir", res |-> parent_dir(Built)]
    /\ UNCHANGED path_frame

\* FileRef::new_const(operand).parent_dir(): the path is the literal.
Apply_parent_dir_const ==
    /\ outcome.op = "none"
    /\ outcome' = [op |-> "parent_dir_const", res |-> parent_dir(new_const(operand).path)]
    /\ UNCHANGED path_frame

\* FileRef::new(operand).absolute().
Apply_absolute ==
    /\ IsBuilt
    /\ outcome' = [op |-> "absolute", of |-> Built, val |-> absolute(Built)]
    /\ UNCHANGED path_frame

\* The comparisons with == of a = FileRef::new(operand) and two other values.
Apply_eq ==
    /\ IsBuilt
    /\ \E b \in {FileRef_new(p) : p \in OtherPaths}, c \in {FileRef_new(p) : p \in OtherPaths} :
          outcome' = [op |-> "eq", a |-> Built, b |-> b, c |-> c,
                      aa |-> FileRef_eq(Built, Built),
                      ab |-> FileRef_eq(Built, b), ba |-> FileRef_eq(b, Built),
                      bc |-> FileRef_eq(b, c), ac |-> FileRef_eq(Built, c)]
    /\ UNCHANGED path_frame

\* FileRef::new(operand) == FileRef::new(operand).absolute().
Apply_eq_absolute ==
    /\ IsBuilt
    /\ \E abs \in {absolute(Built)} :
          outcome' = [op |-> "eq_absolute", a |-> Built, abs |-> abs,
                      val |-> IF IsPanic(abs) THEN "panic" ELSE FileRef_eq(Built, abs)]
    /\ UNCHANGED path_frame

\* a.cmp(b), each of the two built with new or with new_const.
Apply_cmp ==
    /\ outcome.op = "none"
    /\ \E a \in {new_const(operand)} \cup {FilePath_Owned(path) : path \in {Built} \ {PANIC}},
          b \in {new_const(<<"a">>), FilePath_Owned(FileRef_new(<<"a">>)),
                 new_const(<<".", "/", "a">>)} :
          outcome' = [op |-> "cmp", a |-> a, b |-> b, val |-> FileRef_cmp(a, b)]
    /\ UNCHANGED path_frame

NextPath ==
    \/ Apply_new \/ Apply_new_again
    \/ Apply_add \/ Apply_add_assign \/ Apply_replace \/ Apply_trim_end_matches
    \/ Apply_parent_dir \/ Apply_parent_dir_const \/ Apply_absolute
    \/ Apply_eq \/ Apply_eq_absolute \/ Apply_cmp
SpecPath == InitPath /\ [][NextPath]_vars

(***************************************************************************)
(* file_ref.rs: reading and writing files.                                 *)
(***************************************************************************)
\* The bytes of the files of the filesystem f, c being the bytes before: a
\* file that was created holds nothing, a file that is gone has no bytes.
ContentsIn(f, c) == [p \in f.files |-> IF p \in DOMAIN c THEN c[p] ELSE << >>]

\* The characters of the strings written: "A" is U+0041, "E" stands for
\* U+00C9, a character of two bytes.  String::as_bytes is their UTF-8 form.
Utf8Of(char) == IF char = "A" THEN <<65>> ELSE <<195, 137>>

RECURSIVE as_bytes(_)
as_bytes(string) ==
    IF string = << >> THEN << >> ELSE Utf8Of(Head(string)) \o as_bytes(Tail(string))

\* Read::read_to_string: the string of bytes that are UTF-8, or Err.
RECURSIVE read_to_string(_)
read_to_string(bytes) ==
    IF bytes = << >> THEN Ok(<< >>)
    ELSE IF Head(bytes) = 65
    THEN TheOne({IF rest.tag = "Ok" THEN Ok(<<"A">> \o rest.val) ELSE Err :
                   rest \in {read_to_string(Tail(bytes))}})
    ELSE IF Len(bytes) >= 2 /\ Head(bytes) = 195 /\ bytes[2] = 137
    THEN TheOne({IF rest.tag = "Ok" THEN Ok(<<"E">> \o rest.val) ELSE Err :
                   rest \in {read_to_string(Tail(Tail(bytes)))}})
    ELSE Err

\* A write_all into a file opened without truncate(true).
OsWriteAll_keep(old, data) == data \o SubSeq(old, Len(data) + 1, Len(old))

\* OpenOptions::new().write(true).truncate(true).open, then write_all
\* (lines 423-424): the bytes of the file after, old being its bytes before.
OsWriteAll(old, data) == data

\* FileRef::guarantee_exists (lines 351-356) in the filesystem f.
guarantee_exists_in(f, self) ==
    IF ~exists_in(f, self) THEN create_in(f, self) ELSE [tag |-> "Ok", fs |-> f]

\* FileRef::_write_bytes (lines 416-430) in the filesystem f with the bytes c:
\* the tag of the Result, the filesystem and the bytes after.
write_bytes_in(f, c, self, data) ==
    IF is_dir_in(f, self) THEN [tag |-> "Err", fs |-> f, contents |-> c]
    ELSE TheOne({IF made.tag # "Ok" \/ OsCanon(self) \notin made.fs.files
                 THEN [tag |-> IF made.tag = "Ok" THEN "Err" ELSE made.tag,
                       fs |-> made.fs, contents |-> ContentsIn(made.fs, c)]
                 ELSE [tag |-> "Ok", fs |-> made.fs,
                       contents |-> [ContentsIn(made.fs, c) EXCEPT
                                       ![OsCanon(self)] = OsWriteAll(@, data)]] :
                   made \in {guarantee_exists_in(f, self)}})

\* FileRef::_write (lines 397-403).
write_in(f, c, self, string) ==
    IF is_dir_in(f, self) THEN [tag |-> "Err", fs |-> f, contents |-> c]
    ELSE write_bytes_in(f, c, self, as_bytes(string))

\* FileRef::read_bytes (lines 314-326) and FileRef::read (lines 298-311).
read_bytes_in(f, c, self) ==
    IF is_dir_in(f, self) THEN Err
    ELSE IF ~exists_in(f, self) THEN Err
    ELSE IF OsCanon(self) \notin f.files THEN Err
    ELSE Ok(c[OsCanon(self)])

read_in(f, c, self) ==
    IF is_dir_in(f, self) THEN Err
    ELSE IF ~exists_in(f, self) THEN Err
    ELSE IF OsCanon(self) \notin f.files THEN Err
    ELSE read_to_string(c[OsCanon(self)])

(***************************************************************************)
(* The file operations as a state machine: a filesystem and a path are     *)
(* chosen, and operations are applied to the FileRef of the path.          *)
(***************************************************************************)
MaxOps == 2

\* The trees of the filesystem beneath the working directory.
EmptyTree == [dirs |-> {}, files |-> {}]
SmallTree ==
    [dirs |-> {<<"a">>},
     files |-> {<<"a", "/", "f", ".", "t">>, <<"g", ".", "t">>, <<"h">>}]
DottedTree ==
    [dirs |-> {<<"a">>, <<"a", "/", "b">>, <<"a", ".", "d">>},
     files |-> {<<"a", ".", "d", "/", "f", ".", "t">>}]
FileTrees == {EmptyTree, SmallTree, DottedTree}

\* The paths the operations are applied to.
FilePaths ==
    {<<"f", ".", "t">>, <<"a", "/", "f", ".", "t">>, <<"a", "\\", "b", "\\", "f", ".", "t">>,
     <<"a", ".", "d", "/", "f", ".", "t">>, <<"a", ".", "d", "/", "b", "/", "f", ".", "t">>,
     <<"a", "/", "b", "/", "c", ".", "d", "/", "f", ".", "t">>,
     <<"g", ".", "t", "/", "f", ".", "t">>, <<"g", ".", "t">>, <<"h">>, <<"a", "/", "h">>,
     <<"a">>, <<"a", "/", "b", "/">>, <<"a", "/", "b", "/", "c">>,
     <<"x", ".">>, <<".", "x">>, << >>, Dot, DotDot,
     <<"C", ":", "/", "w", "/", "a", "/", "f", ".", "t">>}

\* What is written, as a string and as bytes, and what a file holds at first.
WrittenStrings == {<< >>, <<"A">>, <<"E", "A">>}
WrittenBytes == {<< >>, <<65>>, <<195>>, <<137, 65, 195, 137>>}
FirstBytes == <<65, 195, 137>>

InitFile ==
    /\ cwd = PathWorkingDir
    /\ reversed = FALSE
    /\ \E tree \in FileTrees :
          /\ fs = [dirs |-> {OsCanon(p) : p \in tree.dirs},
                   files |-> {OsCanon(p) : p \in tree.files}]
          /\ contents = [p \in {OsCanon(q) : q \in tree.files} |-> FirstBytes]
    /\ source_dir = trim_end_matches(FileRef_new(Dot), SEPARATOR)
    /\ cursor = [dir |-> FileRef_new(Dot), last_parsed_file |-> None]
    /\ include_files = FALSE
    /\ include_dirs = FALSE
    /\ results_filter = "all"
    /\ recurse_filter = "none"
    /\ started = FALSE
    /\ results = << >>
    /\ crashed = FALSE
    /\ listings = [first |-> {}, again |-> {}]
    /\ changes = 0
    /\ include_self = FALSE
    /\ self_emitted = FALSE
    /\ operand \in FilePaths
    /\ outcome = [op |-> "none"]
    /\ monitor = MonitorIdle
    /\ temp = TempIdle

\* What an operation on a file leaves alone besides the filesystem.
file_frame == <<cwd, reversed, scanner, observed, self_vars, operand, rest_vars>>

\* FileRef::new(operand).exists(), is_dir() and is_file().
Apply_is_dir ==
    /\ outcome' = [op |-> "is_dir", exists |-> exists(Built),
                   is_dir |-> is_dir(Built), is_file |-> is_file(Built)]
    /\ UNCHANGED <<file_frame, fs, changes, contents>>

\* FileRef::new(operand).guarantee_parent_dir().
Apply_guarantee_parent_dir ==
    /\ changes < MaxOps
    /\ \E done \in {guarantee_parent_dir_in(fs, Built)} :
          /\ outcome' = [op |-> "guarantee_parent_dir", tag |-> done.tag, before |-> fs]
          /\ fs' = done.fs
          /\ contents' = ContentsIn(done.fs, contents)
    /\ changes' = changes + 1
    /\ UNCHANGED file_frame

\* FileRef::new(operand).create().
Apply_create ==
    /\ changes < MaxOps
    /\ \E done \in {create_in(fs, Built)} :
          /\ outcome' = [op |-> "create", tag |-> done.tag, before |-> fs]
          /\ fs' = done.fs
          /\ contents' = ContentsIn(done.fs, contents)
    /\ changes' = changes + 1
    /\ UNCHANGED file_frame

\* FileRef::new(operand).write(string).
Apply_write ==
    /\ changes < MaxOps
    /\ \E string \in WrittenStrings :
          \E done \in {write_in(fs, contents, Built, string)} :
             /\ outcome' = [op |-> "write", tag |-> done.tag, data |-> string, before |-> fs]
             /\ fs' = done.fs
             /\ contents' = done.contents
    /\ changes' = changes + 1
    /\ UNCHANGED file_frame

\* FileRef::new(operand).write_bytes(data).
Apply_write_bytes ==
    /\ changes < MaxOps
    /\ \E data \in WrittenBytes :
          \E done \in {write_bytes_in(fs, contents, Built, data)} :
             /\ outcome' = [op |-> "write_bytes", tag |-> done.tag, data |-> data, before |-> fs]
             /\ fs' = done.fs
             /\ contents' = done.contents
    /\ changes' = changes + 1
    /\ UNCHANGED file_frame

\* The write a read follows, if it follows one.
LastWrite ==
    IF outcome.op \in {"write", "write_bytes"}
    THEN [op |-> outcome.op, tag |-> outcome.tag, data |-> outcome.data, before |-> outcome.before]
    ELSE [op |-> "none"]

\* FileRef::new(operand).read().
Apply_read ==
    /\ outcome' = [op |-> "read", res |-> read_in(fs, contents, Built), after |-> LastWrite]
    /\ UNCHANGED <<file_frame, fs, changes, contents>>

\* FileRef::new(operand).read_bytes().
Apply_read_bytes ==
    /\ outcome' = [op |-> "read_bytes", res |-> read_bytes_in(fs, contents, Built),
                   after |-> LastWrite]
    /\ UNCHANGED <<file_frame, fs, changes, contents>>

NextFile ==
    \/ Apply_is_dir
    \/ Apply_guarantee_parent_dir \/ Apply_create
    \/ Apply_write \/ Apply_write_bytes
    \/ Apply_read \/ Apply_read_bytes
SpecFile == InitFile /\ [][NextFile]_vars

(***************************************************************************)
(* dir_monitor.rs: DirMonitor.  monitor.handlers is the kinds of the        *)
(* handlers in the order of their registration: a handler is known by its   *)
(* place in it.  monitor.events are the changes the OS has notified,        *)
(* monitor.pending the FILE_NOTIFY_INFORMATION records not read yet,        *)
(* monitor.delivered the records the reads have returned, monitor.buffer    *)
(* the records in the buffer of run_while, monitor.calls the handler calls  *)
(* so far, monitor.condition what the condition evaluated to last.          *)
(***************************************************************************)
MaxHandlers == 2
MaxEvents == 2

\* The directory monitored and the names of the files that change in it.
MonitorDir == <<"m">>
FileNames == {<<"f">>, <<"g">>}

\* The changes the OS notifies, and the records it writes for a change: one
\* record with Action 1, 2 or 3, or, for a rename, a record with Action 4 and
\* the old name followed by a record with Action 5 and the new name.
MonitorEvents ==
    [kind : {"add", "remove", "modify"}, file : {<<"f">>}]
       \cup [kind : {"rename"}, file : {<<"f">>}, to : {<<"g">>}]

RecordsOf(event) ==
    CASE event.kind = "add" -> <<[Action |-> 1, FileName |-> event.file]>>
      [] event.kind = "remove" -> <<[Action |-> 2, FileName |-> event.file]>>
      [] event.kind = "modify" -> <<[Action |-> 3, FileName |-> event.file]>>
      [] event.kind = "rename" -> <<[Action |-> 4, FileName |-> event.file],
                                    [Action |-> 5, FileName |-> event.to]>>

\* The handlers of a kind, in the order of their registration (the Vec of the
\* kind), and the calls of one for-each over them.
RECURSIVE CallsFrom(_, _, _, _)
CallsFrom(handlers, kind, args, i) ==
    IF i > Len(handlers) THEN << >>
    ELSE (IF handlers[i] = kind THEN <<[handler |-> i, args |-> args]>> ELSE << >>)
            \o CallsFrom(handlers, kind, args, i + 1)
CallsOf(handlers, kind, args) == CallsFrom(handlers, kind, args, 1)

\* run_while, lines 109-134: the loop over the records of the buffer, from
\* the record at position i on, file_moving_origin being the origin so far.
RECURSIVE IterateRecords(_, _, _, _)
IterateRecords(handlers, buffer, i, file_moving_origin) ==
    IF i > Len(buffer) THEN << >>
    ELSE TheOne({
           CASE buffer[i].Action = 1 ->
                  CallsOf(handlers, "add", <<file>>)
                     \o IterateRecords(handlers, buffer, i + 1, file_moving_origin)
             [] buffer[i].Action = 2 ->
                  CallsOf(handlers, "remove", <<file>>)
                     \o IterateRecords(handlers, buffer, i + 1, file_moving_origin)
             [] buffer[i].Action = 3 ->
                  CallsOf(handlers, "modify", <<file>>)
                     \o IterateRecords(handlers, buffer, i + 1, file_moving_origin)
             [] buffer[i].Action = 4 ->
                  IterateRecords(handlers, buffer, i + 1, file)
             [] buffer[i].Action = 5 ->
                  CallsOf(handlers, "rename", <<file_moving_origin, file>>)
                     \o IterateRecords(handlers, buffer, i + 1, file_moving_origin)
             [] OTHER -> IterateRecords(handlers, buffer, i + 1, file_moving_origin) :
           file \in {FileRef_add(FileRef_add(FileRef_new(MonitorDir), SEPARATOR),
                                 buffer[i].FileName)}})

\* One pass of the while loop of run_while after a read (lines 107-108): the
\* origin of a rename starts as FileRef::new("") in every pass.
CallsOfPass(handlers, buffer) == IterateRecords(handlers, buffer, 1, FileRef_new(<< >>))

\* The state in which the scanner, the path operations and the filesystem
\* take no part: the working directory is dir, the path is path.
InitIdle(dir, path) ==
    /\ cwd = dir
    /\ reversed = FALSE
    /\ fs = [dirs |-> {}, files |-> {}]
    /\ source_dir = trim_end_matches(FileRef_new(Dot), SEPARATOR)
    /\ cursor = [dir |-> FileRef_new(Dot), last_parsed_file |-> None]
    /\ include_files = FALSE
    /\ include_dirs = FALSE
    /\ results_filter = "all"
    /\ recurse_filter = "none"
    /\ started = FALSE
    /\ results = << >>
    /\ crashed = FALSE
    /\ listings = [first |-> {}, again |-> {}]
    /\ changes = 0
    /\ include_self = FALSE
    /\ self_emitted = FALSE
    /\ operand = path
    /\ outcome = [op |-> "none"]
    /\ contents = << >>
    /\ monitor = MonitorIdle
    /\ temp = TempIdle

InitMonitor == InitIdle(PathWorkingDir, MonitorDir)

monitor_frame ==
    <<scanner, observed, world, self_vars, path_vars, file_vars, temp>>

\* DirMonitor::with_add_handler, with_remove_handler, with_modify_handler and
\* with_rename_handler (lines 49-70): push the handler on the Vec of its kind.
DirMonitor_with_add_handler ==
    /\ monitor.pc = "building"
    /\ Len(monitor.handlers) < MaxHandlers
    /\ monitor' = [monitor EXCEPT !.handlers = Append(@, "add")]
    /\ UNCHANGED monitor_frame

DirMonitor_with_remove_handler ==
    /\ monitor.pc = "building"
    /\ Len(monitor.handlers) < MaxHandlers
    /\ monitor' = [monitor EXCEPT !.handlers = Append(@, "remove")]
    /\ UNCHANGED monitor_frame

DirMonitor_with_modify_handler ==
    /\ monitor.pc = "building"
    /\ Len(monitor.handlers) < MaxHandlers
    /\ monitor' = [monitor EXCEPT !.handlers = Append(@, "modify")]
    /\ UNCHANGED monitor_frame

DirMonitor_with_rename_handler ==
    /\ monitor.pc = "building"
    /\ Len(monitor.handlers) < MaxHandlers
    /\ monitor' = [monitor EXCEPT !.handlers = Append(@, "rename")]
    /\ UNCHANGED monitor_frame

\* run_while, lines 83-95: Err when the directory does not exist or cannot be
\* opened, else the loop is entered.
DirMonitor_run_while ==
    /\ monitor.pc = "building"
    /\ \E opened \in BOOLEAN :
          monitor' = IF opened
                     THEN [monitor EXCEPT !.pc = "running"]
                     ELSE [monitor EXCEPT !.pc = "returned", !.result = "Err"]
    /\ UNCHANGED monitor_frame

\* A change in the directory while the handle is open: the OS queues its
\* records.
Os_notify ==
    /\ monitor.pc = "running"
    /\ Len(monitor.events) < MaxEvents
    /\ \E event \in MonitorEvents :
          monitor' = [monitor EXCEPT !.events = Append(@, event),
                                     !.pending = @ \o RecordsOf(event)]
    /\ UNCHANGED monitor_frame

\* run_while, line 99: the condition evaluates to false, the loop ends and
\* Ok is returned (line 138).
DirMonitor_condition_false ==
    /\ monitor.pc = "running"
    /\ monitor' = [monitor EXCEPT !.pc = "returned", !.result = "Ok", !.condition = "false"]
    /\ UNCHANGED monitor_frame

\* run_while, lines 99-135: the condition evaluates to true,
\* ReadDirectoryChangesW returns some of the pending records, the first of
\* them at least, and the records of the buffer are dispatched.
DirMonitor_read ==
    /\ monitor.pc = "running"
    /\ \E count \in 1..Len(monitor.pending) :
          \E read \in {SubSeq(monitor.pending, 1, count)} :
             monitor' = [monitor EXCEPT
                           !.pending = SubSeq(@, count + 1, Len(@)),
                           !.delivered = @ \o read,
                           !.buffer = read,
                           !.condition = "true",
                           !.calls = @ \o CallsOfPass(monitor.handlers, read)]
    /\ UNCHANGED monitor_frame

\* run_while, lines 99-135, when ReadDirectoryChangesW succeeds with no byte
\* returned (more changes than its buffer holds): the pending records are
\* lost, the buffer keeps the records of the read before, and the loop
\* dispatches what the buffer holds.
DirMonitor_read_nothing ==
    /\ monitor.pc = "running"
    /\ Len(monitor.pending) > 1
    /\ monitor' = [monitor EXCEPT
                     !.pending = << >>,
                     !.condition = "true",
                     !.calls = @ \o CallsOfPass(monitor.handlers, monitor.buffer)]
    /\ UNCHANGED monitor_frame

\* run_while, lines 103-105: ReadDirectoryChangesW fails.
DirMonitor_read_fails ==
    /\ monitor.pc = "running"
    /\ monitor' = [monitor EXCEPT !.pc = "returned", !.result = "Err", !.condition = "true"]
    /\ UNCHANGED monitor_frame

NextMonitor ==
    \/ DirMonitor_with_add_handler \/ DirMonitor_with_remove_handler
    \/ DirMonitor_with_modify_handler \/ DirMonitor_with_rename_handler
    \/ DirMonitor_run_while \/ Os_notify
    \/ DirMonitor_condition_false
    \/ DirMonitor_read \/ DirMonitor_read_nothing \/ DirMonitor_read_fails
SpecMonitor == InitMonitor /\ [][NextMonitor]_vars

(***************************************************************************)
(* TempFile (unit_test_support/temp_file.rs): threads make, clone and drop *)
(* TempFile values.  A step of a thread is what it does between two        *)
(* acquisitions or releases of the lock of RESERVED_FILES, or one file     *)
(* system operation.  A value is [id, path, dropping]: alive from the end  *)
(* of the call that made it to the end of its drop.                        *)
(***************************************************************************)
TEMP_FILE_DIR ==
    <<"t", "a", "r", "g", "e", "t", "/", "u", "n", "i", "t", "_", "t", "e", "s", "t", "_",
      "s", "u", "p", "p", "o", "r", "t", "/">>

\* The extensions TempFile::new is called with.
Extensions == {None, Some(<<"t", "x", "t">>)}

\* format!("{:#08}", n): the decimal digits of n, zero-padded to 8 characters.
RECURSIVE Decimal(_)
Decimal(n) ==
    IF n < 10 THEN <<<<"0", "1", "2", "3", "4", "5", "6", "7", "8", "9">>[n + 1]>>
    ELSE Decimal(n \div 10) \o Decimal(n % 10)

RECURSIVE ZeroPadded(_, _)
ZeroPadded(digits, width) ==
    IF Len(digits) >= width THEN digits ELSE ZeroPadded(<<"0">> \o digits, width)

\* get_file_name for the index it has just incremented to.
get_file_name(index) == ZeroPadded(Decimal(index), 8)

\* random_file for that index.
random_file(ext, index) ==
    FileRef_new(TEMP_FILE_DIR \o get_file_name(index)
                  \o (IF ext = None THEN << >> ELSE <<".">> \o ext[1]))

\* Vec::remove at the position of the first entry equal to file.
RemoveFirst(entries, file) ==
    LET index == CHOOSE i \in 1..Len(entries) :
                     entries[i] = file /\ \A j \in 1..(i - 1) : entries[j] # file
    IN  SubSeq(entries, 1, index - 1) \o SubSeq(entries, index + 1, Len(entries))

InitTemp == InitIdle(PathWorkingDir, TEMP_FILE_DIR)

temp_frame ==
    <<scanner, observed, world, self_vars, path_vars, file_vars, monitor>>

\* TempFile::new, line 22: the thread takes the lock of RESERVED_FILES.
TempFile_new_lock ==
    \E t \in Threads, ext \in Extensions :
        /\ temp.threads[t].pc = "idle"
        /\ temp.lock = 0
        /\ temp.made < MaxValues
        /\ temp' = [temp EXCEPT !.lock = t,
                                !.threads[t] = [ThreadIdle EXCEPT !.pc = "new_dir",
                                                                  !.extension = ext]]
        /\ UNCHANGED temp_frame

\* TempFile::new, lines 25-32: TEMP_FILE_DIR is created where it is missing.
TempFile_new_dir ==
    \E t \in Threads :
        /\ temp.threads[t].pc = "new_dir"
        /\ temp' = [temp EXCEPT !.dir_exists = TRUE, !.threads[t].pc = "random_file"]
        /\ UNCHANGED temp_frame

\* TempFile::new, lines 35 and 37: random_file, whose get_file_name
\* increments RESERVED_FILE_INDEX under its own lock.
TempFile_random_file ==
    \E t \in Threads :
        /\ temp.threads[t].pc = "random_file"
        /\ temp' = [temp EXCEPT
                      !.reserved_file_index = @ + 1,
                      !.threads[t].file = random_file(temp.threads[t].extension,
                                                      temp.reserved_file_index + 1),
                      !.threads[t].pc = "contains"]
        /\ UNCHANGED temp_frame

\* TempFile::new, lines 36-41: a reserved path is drawn again; another is
\* pushed, the value is returned and the lock released.
TempFile_new_push ==
    \E t \in Threads :
        /\ temp.threads[t].pc = "contains"
        /\ IF temp.threads[t].file \in Range(temp.reserved_files)
           THEN temp' = [temp EXCEPT !.threads[t].pc = "random_file"]
           ELSE temp' = [temp EXCEPT
                           !.reserved_files = Append(@, temp.threads[t].file),
                           !.values = @ \cup {[id |-> temp.made + 1,
                                               path |-> temp.threads[t].file,
                                               dropping |-> FALSE]},
                           !.made = @ + 1,
                           !.lock = 0,
                           !.threads[t] = ThreadIdle]
        /\ UNCHANGED temp_frame

\* TempFile::clone, derived on line 12: a second value with the same FileRef.
TempFile_clone ==
    \E t \in Threads, value \in temp.values :
        /\ temp.threads[t].pc = "idle"
        /\ ~value.dropping
        /\ temp.made < MaxValues
        /\ temp' = [temp EXCEPT
                      !.values = @ \cup {[id |-> temp.made + 1, path |-> value.path,
                                          dropping |-> FALSE]},
                      !.made = @ + 1]
        /\ UNCHANGED temp_frame

\* FileRef::new(temp_file.path()).create(), as the tests use a TempFile:
\* the file of a live value is created, with its parent directory.
TempFile_path_create ==
    \E value \in temp.values :
        /\ ~value.dropping
        /\ value.path \notin temp.files
        /\ temp' = [temp EXCEPT !.files = @ \cup {value.path}, !.dir_exists = TRUE]
        /\ UNCHANGED temp_frame

\* drop, lines 70-73: the file of the value is deleted where it exists.
TempFile_drop_delete ==
    \E t \in Threads, value \in temp.values :
        /\ temp.threads[t].pc = "idle"
        /\ ~value.dropping
        /\ temp' = [temp EXCEPT
                      !.files = @ \ {value.path},
                      !.values = (@ \ {value}) \cup {[value EXCEPT !.dropping = TRUE]},
                      !.threads[t] = [ThreadIdle EXCEPT !.pc = "drop_lock",
                                                        !.file = value.path,
                                                        !.dropping = value.id]]
        /\ UNCHANGED temp_frame

\* drop, line 76: the thread takes the lock of RESERVED_FILES.
TempFile_drop_lock ==
    \E t \in Threads :
        /\ temp.threads[t].pc = "drop_lock"
        /\ temp.lock = 0
        /\ temp' = [temp EXCEPT !.lock = t, !.threads[t].pc = "drop_remove"]
        /\ UNCHANGED temp_frame

\* drop, lines 77-85: the first entry equal to the path is removed, where
\* there is one; TEMP_FILE_DIR is deleted if that leaves the list empty; the
\* lock is released and the value is gone.
TempFile_drop_remove ==
    \E t \in Threads :
        /\ temp.threads[t].pc = "drop_remove"
        /\ LET file == temp.threads[t].file
               found == file \in Range(temp.reserved_files)
               left == IF found THEN RemoveFirst(temp.reserved_files, file)
                       ELSE temp.reserved_files
               delete_dir == found /\ left = << >>
               alive == {value \in temp.values : value.id # temp.threads[t].dropping}
           IN  temp' = [temp EXCEPT
                          !.reserved_files = left,
                          !.dir_exists = IF delete_dir THEN FALSE ELSE @,
                          !.files = IF delete_dir THEN {} ELSE @,
                          !.deleted_with = IF delete_dir THEN @ \cup alive ELSE @,
                          !.values = alive,
                          !.lock = 0,
                          !.threads[t] = ThreadIdle]
        /\ UNCHANGED temp_frame

NextTemp ==
    \/ TempFile_new_lock
    \/ TempFile_new_dir
    \/ TempFile_random_file
    \/ TempFile_new_push
    \/ TempFile_clone
    \/ TempFile_path_create
    \/ TempFile_drop_delete
    \/ TempFile_drop_lock
    \/ TempFile_drop_remove

SpecTemp == InitTemp /\ [][NextTemp]_vars

(***************************************************************************)
(* What a run shows of a scan.                                             *)
(***************************************************************************)

\* The canonical path of the root of the scan.
RootCanon == OsCanon(source_dir)

\* The canonical path p lies beneath the directory d, at any depth.
Beneath(p, d) == Len(p) > Len(d) /\ SubSeq(p, 1, Len(d) + 1) = d \o SEPARATOR

\* The canonical path p is an immediate child of the directory d.
ChildOf(p, d) ==
    Beneath(p, d) /\ ~str_contains(SliceFrom(p, Len(d) + 1), SEPARATOR)

\* The calls of next() so far that returned an entry, the entries returned,
\* and how often next() returned the entry p.
Yields == {i \in 1..Len(results) : results[i].item # None}
YieldedPaths == {results[i].canon : i \in Yields}
TimesYielded(p) == Cardinality({i \in Yields : results[i].canon = p})
NoEntryTwice == \A p \in YieldedPaths : TimesYielded(p) = 1

\* The scanner was drained: next() has returned None.
Drained == NoneResults # {}

\* The directories between the root and the path p, both excluded.
DirsDownTo(p) == {d \in fs.dirs : Beneath(p, d) /\ Beneath(d, RootCanon)}

\* The directories the path p lies in, but for the root and the directories
\* the root lies in: the directories a scan has to go into to reach p.
DirsEntered(p) ==
    {d \in fs.dirs \cup FixedDirs :
        Beneath(p, d) /\ d # RootCanon /\ ~Beneath(RootCanon, d)}

(***************************************************************************)
(* The properties of the scanner.                                          *)
(***************************************************************************)

\* C1: on a tree that does not change, a drained scanner built with
\* include_files().recurse() has yielded every file at any depth beneath the
\* root exactly once; it yields no directory and no entry twice.
C1_RecursiveScanYieldsEveryFileOnce ==
    (include_files /\ ~include_dirs /\ results_filter = "all" /\ recurse_filter = "all") =>
        /\ NoEntryTwice
        /\ \A i \in Yields : ~results[i].was_dir
        /\ Drained => \A f \in fs.files : Beneath(f, RootCanon) => TimesYielded(f) = 1

\* C2: without recursion, a drained scanner has yielded exactly the immediate
\* files of the root for include_files() alone, exactly the immediate
\* sub-directories of the root for include_dirs() alone, each once, and a
\* scanner never yields anything else.
C2_FlatScanYieldsImmediateChildren ==
    (recurse_filter = "none" /\ results_filter = "all" /\ include_files # include_dirs) =>
        LET kind == IF include_files THEN fs.files ELSE fs.dirs \cup FixedDirs
            children == {p \in kind : ChildOf(p, RootCanon)}
        IN  /\ YieldedPaths \subseteq children
            /\ NoEntryTwice
            /\ Drained => YieldedPaths = children

\* C3: every entry next() returned is a file while include_files is set or a
\* directory while include_dirs is set, and the result filter accepts it; with
\* the filter that rejects every entry, next() has returned no entry.
C3_ResultsAreEnabledAndAccepted ==
    /\ \A i \in Yields :
          /\ IF results[i].was_dir THEN include_dirs ELSE include_files
          /\ Accepts(results_filter, results[i].item[1])
    /\ results_filter = "none" => Yields = {}

\* C3, its case: a drained recursive scan of a tree that holds a/g.t, with
\* files only and the filter that rejects g.t, has yielded entries.
C3_Witness ==
    /\ include_files /\ ~include_dirs
    /\ results_filter = "not_g" /\ recurse_filter = "all"
    /\ OsCanon(P_ag) \in fs.files /\ Beneath(OsCanon(P_ag), RootCanon)
    /\ Drained /\ Yields # {}

\* C4: no entry beneath a directory the recurse filter rejects is yielded,
\* whatever the include flags and the result filter: every directory the scan
\* had to go into to reach a yielded entry is one the recurse filter accepts.
\* (The filter is never asked about the root.)  The rejected directory itself
\* may be yielded.
C4_NothingBeneathRejectedDirectory ==
    \A i \in Yields : \A d \in DirsEntered(results[i].canon) : Accepts(recurse_filter, d)

\* C4, its case: a drained scan with the recurse filter that rejects b, of a
\* tree in which a/b holds a file, has yielded a/b itself and other entries.
C4_Witness ==
    /\ recurse_filter = "not_b" /\ include_files /\ include_dirs
    /\ OsCanon(P_abf) \in fs.files /\ Beneath(OsCanon(P_abf), RootCanon)
    /\ OsCanon(P_ab) \in YieldedPaths
    /\ Cardinality(YieldedPaths) > 1
    /\ Drained

\* C5: with directories not yielded, a drained scanner has yielded exactly
\* once every file beneath the root that the result filter accepts and that
\* lies beneath directories the recurse filter accepts only: the scan goes
\* into each such directory and goes on with the siblings that follow it.
C5_UnyieldedDirectoriesAreDescended ==
    (include_files /\ ~include_dirs /\ Drained) =>
        \A f \in fs.files :
            ( /\ Beneath(f, RootCanon)
              /\ Accepts(results_filter, f)
              /\ \A d \in DirsDownTo(f) : Accepts(recurse_filter, d) ) => TimesYielded(f) = 1

\* C6: a scanner whose root is a file, built with
\* include_files().include_dirs().recurse(), yields no entry: no call of
\* next() returns an entry, a sibling of the root file or any other.
C6_FileRootYieldsNothing ==
    ( /\ RootCanon \in fs.files
      /\ include_files /\ include_dirs
      /\ results_filter = "all" /\ recurse_filter = "all" ) => Yields = {}

\* C7: on a tree that does not change, every call of next() returns, for
\* every configuration: no call ends in a panic.
C7_EveryCallOfNextReturns == ~crashed

\* C8: exhaustion is terminal: once next() has returned None, every later
\* call of next() returns None, whatever happened to the filesystem between
\* the calls.
C8_ExhaustionIsTerminal ==
    \A i \in NoneResults : \A j \in i..Len(results) : results[j].item = None

\* C9: for a root spelled as an absolute path, a relative path of several
\* segments, a single name, or `.`, every directory the scanner lists and
\* every entry it yields is the root or lies beneath the root: the scan does
\* not go on among the entries of the parent of the root.
C9_ScanStaysInsideRoot ==
    source_dir # DotDot =>
        /\ \A l \in listings.first : l.dir = RootCanon \/ Beneath(l.dir, RootCanon)
        /\ \A p \in YieldedPaths : p = RootCanon \/ Beneath(p, RootCanon)

\* C10: during one scan the children of a directory are read at most once,
\* and every entry the scan yields from a directory is one that the first
\* listing of that directory held: entries added to the directory later are
\* not yielded.
C10_DirectoriesAreListedOnce ==
    /\ listings.again = {}
    /\ \A l \in listings.first : \A p \in YieldedPaths : ChildOf(p, l.dir) => p \in l.kids

\* C11: when the child processed last is no longer in the listing of its
\* directory (it was deleted), the scanner does not start the directory
\* again from its first child: no entry is yielded a second time.
C11_LostChildDoesNotRestartDirectory ==
    \A i \in Yields : \A j \in Yields : results[i].canon = results[j].canon => i = j

\* The filesystem of the full tree after FileRef::delete of a/b, its only change.
FullTreeWithoutB ==
    /\ changes = 1
    /\ fs = [dirs |-> {OsCanon(P_a), OsCanon(P_ac)},
             files |-> {OsCanon(P_acf), OsCanon(P_ag), OsCanon(P_h), OsCanon(P_j)}]

\* C12: a directory whose listing fails is an empty directory: no call of
\* next() panics, and when a/b was deleted during the scan, the drained
\* scanner has yielded every eligible entry of the rest of the tree: every
\* entry whose kind is enabled, that the result filter accepts, and that lies
\* beneath directories the recurse filter accepts only.
C12_FailedListingIsEmptyDirectory ==
    /\ ~crashed
    /\ (FullTreeWithoutB /\ Drained) =>
          \A p \in fs.dirs \cup fs.files :
              ( /\ Beneath(p, RootCanon)
                /\ IF p \in fs.dirs THEN include_dirs ELSE include_files
                /\ Accepts(results_filter, p)
                /\ \A d \in DirsDownTo(p) : Accepts(recurse_filter, d) ) => p \in YieldedPaths

\* C12, its case: a/b was deleted while the cursor was in it, after a/b/f.t
\* was yielded: the listing of a/b failed, the scan went on in a (where
\* a/c/f.t was yielded a second time) and was drained.
C12_Witness ==
    /\ FullTreeWithoutB /\ Drained
    /\ include_files /\ recurse_filter = "all"
    /\ OsCanon(P_abf) \in YieldedPaths
    /\ TimesYielded(OsCanon(P_acf)) = 2
    /\ OsCanon(P_ag) \in YieldedPaths

\* C13: the traversal is depth-first pre-order: with include_dirs().recurse()
\* on a tree that does not change, no entry is yielded twice, a directory is
\* yielded before every entry beneath it, the entries beneath a directory
\* are yielded without an entry from elsewhere between them, and the drained
\* scanner has yielded every directory beneath the root.
C13_DepthFirstPreOrder ==
    (include_dirs /\ results_filter = "all" /\ recurse_filter = "all") =>
        /\ \A i \in Yields : \A j \in Yields :
              /\ results[i].canon = results[j].canon => i = j
              /\ i < j => ~Beneath(results[i].canon, results[j].canon)
        /\ \A d \in fs.dirs : \A i \in Yields : \A k \in Yields :
              (Beneath(results[i].canon, d) /\ Beneath(results[k].canon, d)) =>
                  \A j \in i..k : j \in Yields /\ Beneath(results[j].canon, d)
        /\ Drained => \A d \in fs.dirs : Beneath(d, RootCanon) => d \in YieldedPaths

\* C14: a scanner built with include_self() on an existing root yields the
\* root exactly once, as its first entry, however many entries are pulled;
\* with include_self() alone the drained scanner has yielded the root and
\* nothing else.
C14_RootIsYieldedOnceAndFirst ==
    (include_self /\ results_filter = "all" /\ exists(source_dir) /\ results # << >>) =>
        /\ results[1].canon = RootCanon
        /\ \A i \in Yields : results[i].canon = RootCanon => i = 1
        /\ (~include_files /\ ~include_dirs /\ Drained) => Yields = {1}

\* C15: after FileScanner::new(r), before any call of next(), the root the
\* scanner stores and the directory its cursor starts in are both the
\* absolute form of r with its trailing separators removed (the cursor's
\* directory is built from r, so it has to be that form already).
C15_RootIsAbsoluteAndTrimmed ==
    ~started =>
        \A want \in {trim_end_matches(absolute(cursor.dir), SEPARATOR)} :
            source_dir = want /\ cursor.dir = want

(***************************************************************************)
(* The properties of the path value.                                       *)
(***************************************************************************)
\* C16: FileRef::new(s) returns a value for every input string s: it never
\* panics, also when `..` segments outnumber the segments before them.
C16_ConstructionIsTotal ==
    outcome.op = "new" => ~IsPanic(outcome.val)

\* C17: for every s for which FileRef::new(s) returns, building a FileRef
\* from the path of FileRef::new(s) returns that same path.
C17_NormalizationIsIdempotent ==
    outcome.op = "new_again" => outcome.val = outcome.of

\* C17, its case: a messy input (the built path differs from it) was built and
\* the built path was built again.
C17_Witness ==
    /\ outcome.op = "new_again"
    /\ outcome.of # operand
    /\ Len(outcome.of) > 1

\* The normal form of a path: no backslash, no doubled separator, no `..`
\* segment right after a segment other than `..`, and no `.` segment unless
\* every segment is `.`.
NormalForm(path) ==
    LET segments == str_split(path, SEPARATOR) IN
    /\ ~str_contains(path, INVALID_SEPARATOR)
    /\ ~str_contains(path, DOUBLE_SEPARATOR)
    /\ \A i \in 2..Len(segments) : segments[i] = DotDot => segments[i - 1] = DotDot
    /\ (\E i \in 1..Len(segments) : segments[i] = Dot)
          => \A i \in 1..Len(segments) : segments[i] = Dot

\* The operations that hand a string of their own making to FileRef::new.
Rebuilds == {"add", "add_assign", "replace", "trim"}

\* C18: every path produced by FileRef::new, and by `+`, `+=`, replace, trim
\* and parent_dir, which rebuild through it, is in normal form.
C18_ProducedPathsAreInNormalForm ==
    /\ outcome.op \in {"new", "new_again"} \cup Rebuilds
          => IsPanic(outcome.val) \/ NormalForm(outcome.val)
    /\ outcome.op = "parent_dir" /\ outcome.res.tag = "Ok" => NormalForm(outcome.res.val)

\* C18, its case: an operation handed a string that was not in normal form to
\* FileRef::new, and a path was produced.
C18_Witness ==
    /\ outcome.op \in Rebuilds
    /\ ~NormalForm(outcome.raw)
    /\ ~IsPanic(outcome.val)

\* What the comparisons of an outcome returned.
Comparisons == {outcome.aa, outcome.ab, outcome.ba, outcome.bc, outcome.ac}

\* C19: a == b returns, and is true exactly when the paths are equal or the
\* absolute paths are equal; FileRef::new(p) == FileRef::new(p).absolute() for
\* every relative p; and == is reflexive, symmetric and transitive.
C19_EqualityOfPathOrAbsolutePath ==
    /\ outcome.op = "eq" =>
          /\ Comparisons \subseteq {"true", "false"}
          /\ outcome.ab = "true" <=> \/ outcome.a = outcome.b
                                      \/ absolute(outcome.a) = absolute(outcome.b)
          /\ outcome.aa = "true"
          /\ outcome.ab = outcome.ba
          /\ outcome.ab = "true" /\ outcome.bc = "true" => outcome.ac = "true"
    /\ outcome.op = "eq_absolute" /\ is_relative_path(outcome.a) => outcome.val = "true"

\* C20: a.cmp(b) is the comparison of a.path() with b.path(), whether a and b
\* were built with new or with new_const.
C20_OrderIsTheOrderOfThePaths ==
    outcome.op = "cmp" => outcome.val = str_cmp(outcome.a.path, outcome.b.path)

\* The segments of a path, a trailing separator ignored, and the path without
\* its last segment and the separator before it.
SegmentsOf(path) == str_split(str_trim_end_matches(path, SEPARATOR), SEPARATOR)
WithoutLastSegment(path) ==
    LET segments == SegmentsOf(path)
    IN  str_join(SubSeq(segments, 1, Len(segments) - 1), SEPARATOR)

\* C21: for a path of two segments or more whose last segment is not `..`,
\* parent_dir() returns Ok with the path minus its last segment and the
\* separator before it, a trailing separator ignored.
C21_ParentDirDropsLastSegment ==
    /\ outcome.op = "parent_dir"
    /\ Len(SegmentsOf(Built)) >= 2
    /\ SegmentsOf(Built)[Len(SegmentsOf(Built))] # DotDot
    => outcome.res = Ok(WithoutLastSegment(Built))

\* C21, its case: the parent of a path of two segments or more that ends with
\* a separator was taken.
C21_Witness ==
    /\ outcome.op = "parent_dir"
    /\ Len(SegmentsOf(Built)) >= 2
    /\ SegmentsOf(Built)[Len(SegmentsOf(Built))] # DotDot
    /\ str_ends_with(Built, SEPARATOR)
    /\ outcome.res.tag = "Ok"

ParentDirOf ==
    IF outcome.op = "parent_dir_const" THEN new_const(operand).path ELSE Built

\* A path written with single `/` separators and without `.` segments.
PlainlyWritten(path) ==
    /\ ~str_contains(path, INVALID_SEPARATOR)
    /\ ~str_contains(path, DOUBLE_SEPARATOR)
    /\ \A i \in 1..Len(SegmentsOf(path)) : SegmentsOf(path)[i] # Dot

\* C23: for a path whose last segment is `..`, parent_dir() returns Ok with
\* one more `..` segment appended: `a/../..` for `a/..`, `../..` for `..`.
C23_ParentDirOfDotDotAppends ==
    /\ outcome.op \in {"parent_dir", "parent_dir_const"}
    /\ PlainlyWritten(ParentDirOf)
    /\ SegmentsOf(ParentDirOf)[Len(SegmentsOf(ParentDirOf))] = DotDot
    => outcome.res = Ok(str_trim_end_matches(ParentDirOf, SEPARATOR) \o SEPARATOR \o DotDot)

(***************************************************************************)
(* The properties of the file operations.                                  *)
(***************************************************************************)
\* The last segment of a path (what follows its last separator) looks like
\* `name.ext`: it holds a `.` and does not end with it.
LooksLikeNameExt(path) ==
    LET segments == str_split(path, SEPARATOR)
        last == segments[Len(segments)]
    IN  "." \in Chars(last) /\ last[Len(last)] # "."

\* C24: is_dir() of a path that exists is the filesystem's is-a-directory
\* flag; of a path that does not exist it is true unless the last segment
\* looks like `name.ext`; is_file() is the negation of is_dir().
C24_ClassificationRule ==
    outcome.op = "is_dir" =>
       /\ outcome.exists = (Built # << >> /\ OsCanon(Built) \in fs.dirs \cup fs.files \cup FixedDirs)
       /\ outcome.exists => outcome.is_dir = (OsCanon(Built) \in fs.dirs \cup FixedDirs)
       /\ ~outcome.exists => outcome.is_dir = ~LooksLikeNameExt(Built)
       /\ outcome.is_file = ~outcome.is_dir

\* C24, its case: a path that does not exist and whose last segment holds a `.`
\* without looking like `name.ext` was classified.
C24_Witness ==
    /\ outcome.op = "is_dir"
    /\ ~outcome.exists
    /\ "." \in Chars(Built)
    /\ outcome.is_dir

\* The ancestors of a path, as the filesystem names them: the directories
\* from the drive down to the one that holds the path.
AncestorsOf(path) ==
    LET nodes == OsNodes(path)
    IN  {str_join(SubSeq(nodes, 1, i), SEPARATOR) : i \in 1..(Len(nodes) - 1)}

\* C25: after guarantee_parent_dir() returns Ok on a path, every ancestor of
\* the path exists and is a directory, whatever the ancestors are named.
C25_AncestorsAreDirectories ==
    outcome.op = "guarantee_parent_dir" /\ outcome.tag = "Ok"
        => AncestorsOf(Built) \subseteq fs.dirs \cup FixedDirs

\* A path exists in a filesystem: it names one of its directories or files.
ExistsIn(f, path) == path # << >> /\ OsCanon(path) \in f.dirs \cup f.files \cup FixedDirs

\* C26: create() on a path that does not exist returns Ok, and the path and
\* its ancestors exist afterwards; create() on a path that exists returns Err;
\* and whenever create() returns Err the filesystem is as it was.
C26_CreateIsAllOrNothing ==
    outcome.op = "create" =>
       /\ ~ExistsIn(outcome.before, Built) =>
             /\ outcome.tag = "Ok"
             /\ ExistsIn(fs, Built)
             /\ AncestorsOf(Built) \subseteq fs.dirs \cup fs.files \cup FixedDirs
       /\ ExistsIn(outcome.before, Built) => outcome.tag = "Err"
       /\ outcome.tag = "Err" => fs = outcome.before

\* C27: after write(c) or write_bytes(c) returns Ok on a path, read() or
\* read_bytes() returns exactly c, whatever the file held before, and the
\* file exists, also when it did not before the write.
C27_WriteReadRoundTrip ==
    /\ outcome.op = "read" /\ outcome.after.op = "write" /\ outcome.after.tag = "Ok"
          => outcome.res = Ok(outcome.after.data)
    /\ outcome.op = "read_bytes" /\ outcome.after.op = "write_bytes" /\ outcome.after.tag = "Ok"
          => outcome.res = Ok(outcome.after.data)
    /\ outcome.op \in {"write", "write_bytes"} /\ outcome.tag = "Ok"
          => OsCanon(Built) \in fs.files

\* C27, its case: bytes were written to a file that held more bytes, and the
\* file was read.
C27_Witness ==
    /\ outcome.op = "read_bytes"
    /\ outcome.after.op = "write_bytes" /\ outcome.after.tag = "Ok"
    /\ OsCanon(Built) \in outcome.after.before.files
    /\ outcome.after.data # << >>
    /\ Len(outcome.after.data) < Len(FirstBytes)

(***************************************************************************)
(* The properties of the directory monitor.                                *)
(***************************************************************************)
\* The file of a record: the monitored directory, a separator, the name.
FileOf(file_name) == MonitorDir \o SEPARATOR \o file_name

\* The old name of the rename whose new name is the record at position i of
\* the records read: the name of the nearest record with Action 4 before it.
OldNameBefore(records, i) ==
    LET before == {j \in 1..(i - 1) : records[j].Action = 4}
    IN  IF before = {} THEN << >>
        ELSE records[CHOOSE j \in before : \A k \in before : k <= j].FileName

\* The calls owed for the records read, from the record at position i on:
\* for each record in turn, the handlers of its kind in registration order.
RECURSIVE CallsOwed(_, _, _)
CallsOwed(handlers, records, i) ==
    IF i > Len(records) THEN << >>
    ELSE (CASE records[i].Action = 1 -> CallsOf(handlers, "add", <<FileOf(records[i].FileName)>>)
            [] records[i].Action = 2 -> CallsOf(handlers, "remove", <<FileOf(records[i].FileName)>>)
            [] records[i].Action = 3 -> CallsOf(handlers, "modify", <<FileOf(records[i].FileName)>>)
            [] records[i].Action = 4 -> << >>
            [] records[i].Action = 5 ->
                 CallsOf(handlers, "rename",
                         <<FileOf(OldNameBefore(records, i)), FileOf(records[i].FileName)>>))
           \o CallsOwed(handlers, records, i + 1)

\* C28: the handler calls are the calls owed for the notifications read, in
\* their order: for an add, remove or modify the handlers of that kind in
\* registration order with the file, for a rename the rename handlers with
\* the old path and the new path, also when the two records of the rename
\* came in different reads; and run_while returns Ok once its condition
\* evaluates to false.
C28_NotificationsAreDispatchedInOrder ==
    /\ monitor.calls = CallsOwed(monitor.handlers, monitor.delivered, 1)
    /\ monitor.condition = "false" => monitor.pc = "returned" /\ monitor.result = "Ok"

(***************************************************************************)
(* Normalization against a reference normaliser.                           *)
(***************************************************************************)
\* The segments of an input string: both separators separate, and a run of
\* separators separates once.
InputSegments(s) ==
    str_split(CollapseDoubleSeparators(str_replace(s, INVALID_SEPARATOR, SEPARATOR)), SEPARATOR)

\* A real segment of the segments kept so far: a name, neither `..` nor the
\* empty leading segment of a rooted path.
EndsWithRealSegment(kept) ==
    /\ kept # << >>
    /\ kept[Len(kept)] # DotDot
    /\ ~(Len(kept) = 1 /\ kept[1] = << >>)

\* The reference normaliser: the segments from position i on are walked left
\* to right; `.` is dropped, `..` cancels the nearest real segment before it
\* and is kept when there is none, every other segment is kept.
RECURSIVE ReferenceWalk(_, _, _)
ReferenceWalk(segments, i, kept) ==
    IF i > Len(segments) THEN kept
    ELSE IF segments[i] = Dot THEN ReferenceWalk(segments, i + 1, kept)
    ELSE IF segments[i] = DotDot /\ EndsWithRealSegment(kept)
         THEN ReferenceWalk(segments, i + 1, SubSeq(kept, 1, Len(kept) - 1))
    ELSE ReferenceWalk(segments, i + 1, Append(kept, segments[i]))

ReferenceNormalise(s) == str_join(ReferenceWalk(InputSegments(s), 1, << >>), SEPARATOR)

\* C29: FileRef::new(s).path() equals the result of the reference normaliser
\* that drops each `.` segment, lets each `..` cancel the nearest real
\* segment before it (never a `.` and never the empty leading segment of a
\* rooted path) and keeps a `..` with no real segment before it.
C29_NormalizationAgreesWithReference ==
    outcome.op = "new" => outcome.val = ReferenceNormalise(operand)

(***************************************************************************)
(* The properties of TempFile.                                             *)
(***************************************************************************)
\* C30: under any interleaving of threads that make and drop TempFile
\* values, any two values alive at the same time have different paths, the
\* reservation list holds exactly the paths of the live values, and the
\* shared temp directory is deleted only when no TempFile value is alive.
C30_LiveValuesAreReservedApart ==
    /\ \A v, w \in temp.values : v.id # w.id => v.path # w.path
    /\ temp.lock = 0 => Range(temp.reserved_files) = {v.path : v \in temp.values}
    /\ temp.deleted_with = {}

=============================================================================
